---- MODULE Spec2Model ----
(***************************************************************************)
(* Model of the wyoming-azure-speech session bridge.                       *)
(*                                                                         *)
(*   handler.py        AzureSpeechEventHandler: one object per connection, *)
(*                     run by one task of the asyncio event loop           *)
(*   transcriber.py    Transcriber: wraps one continuous recognition run   *)
(*   synthesizer.py    Synthesizer / AioPushAudioOutputStreamCallback      *)
(*   speech_service.py SpeechService: catalog and factory                  *)
(*   __main__.py       startup: both catalogs are resolved before serving  *)
(*                                                                         *)
(* Threads.  Every handler step runs on the event loop thread.  The engine *)
(* (Azure Speech SDK) fires its callbacks on its own threads, so every     *)
(* Engine* action below may interleave with the handler steps at any       *)
(* point.                                                                  *)
(***************************************************************************)
EXTENDS Integers, Sequences, FiniteSets, TLC

-----------------------------------------------------------------------------
(* Bounds of the model *)

MaxEvents == 4         \* inbound events dispatched by the server
MaxSessions == 2       \* Transcriber objects created in one run
MaxRecognized == 2     \* 'recognized' callbacks of one recognition session
MaxWrites == 2         \* write() callbacks of one synthesis
MaxCalls == 4          \* operations made on a SpeechService used on its own

\* Connections.  The handler objects of different connections share nothing
\* but the SpeechService, which no handler writes (handler.py:33-37).
Conns == {1}

-----------------------------------------------------------------------------
(* Values *)

\* Python None: the absent transcriber (handler.py:37) and the terminal
\* marker of the audio queue (synthesizer.py:38).
None == 0

\* The separator of " ".join (transcriber.py:58); a text is a sequence of
\* character codes, and Space is the code of " ".
Space == 0

\* Texts the engine can deliver in evt.result.text: "" and a one-letter word.
Texts == {<<>>, <<1>>}

\* Audio buffers the engine can pass to write().
Buffers == {1, 2}

\* Catalog contents returned by the two capability queries.
LanguageList == {"en-US"}
VoiceList == {"en-US-AvaMultilingualNeural"}

\* Values of Transcribe.language / Synthesize.voice; "none" is an absent field.
LanguageArgs == {"none", "en-US", "xx-XX"}
VoiceArgs == {"none", "en-US-AvaMultilingualNeural", "xx-XX-NoSuchNeural"}

\* Outcomes of one outbound capability query: a success status, a
\* non-success status, or no response at all (requests raises).
QueryResults == {"ok", "status", "error"}

\* Values of --transcription-language and --voice.
DefaultLanguages == {"en-US", "xx-XX"}
DefaultVoices == {"en-US-AvaMultilingualNeural", "xx-XX-NoSuchNeural"}

VARIABLES
  phase,        \* main(): "startup", "langs", "serving", "exited"
  languages,    \* SpeechService.transcription_languages (cached_property)
  voices,       \* SpeechService._supported_voices
  defaults,     \* SpeechService._default_transcription_language / _default_voice
  call,         \* the last operation made on the SpeechService and its outcome
  status,       \* per connection: "open", "closed" (handler returned False), "failed" (handler raised)
  pc,           \* per connection: where the handler task is
  cur,          \* per connection: type of the event being / last handled
  arg,          \* per connection: its language / voice field ("-" when it has none)
  handled,      \* per connection: number of events dispatched so far
  result,       \* per connection: outcome of the last handle_event
  transcriber,  \* per connection: self._transcriber (index into sessions, or None)
  sessions,     \* every Transcriber created so far
  synth,        \* per connection: the Synthesizer of the last Synthesize
  out           \* per connection: events written by the current / last handle_event

vars == <<phase, languages, voices, defaults, call, status, pc, cur, arg, handled,
          result, transcriber, sessions, synth, out>>

-----------------------------------------------------------------------------
(* Pure helpers *)

RECURSIVE Join(_)
\* " ".join(list)
Join(ss) ==
  IF Len(ss) = 0 THEN <<>>
  ELSE IF Len(ss) = 1 THEN ss[1]
  ELSE ss[1] \o <<Space>> \o Join(Tail(ss))

RECURSIVE Total(_, _)
\* Sum of f over the set S
Total(f, S) ==
  IF S = {} THEN 0
  ELSE LET x == CHOOSE y \in S : TRUE IN f[x] + Total(f, S \ {x})

IsPrefix(a, b) == Len(a) <= Len(b) /\ SubSeq(b, 1, Len(a)) = a

Ev(ty, d) == [type |-> ty, data |-> d]

-----------------------------------------------------------------------------
(* speech_service.py *)

\* A SpeechService after __init__: nothing resolved, no query made.
NoLanguages == [cached |-> FALSE, value |-> {}, queries |-> 0]

NoVoices ==
  [cached |-> FALSE,    \* the attribute _supported_voices exists
   value |-> {},        \* _supported_voices
   mapped |-> FALSE,    \* synthesization_voices is stored in the instance
   map |-> {},          \* its value: pairs <<locale, short name>>
   queries |-> 0]       \* outbound voice-list queries made so far

\* What reading a cached_property returns or raises, given whether it was
\* stored before the read and the outcome q of the query made otherwise.
PropertyOutcome(stored, q) ==
  IF stored \/ q = "ok" THEN "value"
  ELSE IF q = "status" THEN "RuntimeError"
  ELSE "RequestException"

\* transcription_languages declared as a plain property: queries on every read
transcription_languages_uncached(L, q) ==
  IF q = "ok"
    THEN [cached |-> TRUE, value |-> LanguageList, queries |-> L.queries + 1]
    ELSE [L EXCEPT !.queries = @ + 1]

\* SpeechService.transcription_languages: the instance after one read
transcription_languages(L, q) ==
  IF L.cached THEN L
  ELSE IF q = "ok"
    THEN [cached |-> TRUE, value |-> LanguageList, queries |-> L.queries + 1]
    ELSE [L EXCEPT !.queries = @ + 1]

\* synthesization_voices that fills _supported_voices before testing
\* response.ok
synthesization_voices_partial(V, q) ==
  IF V.mapped THEN V
  ELSE IF q = "ok"
    THEN [cached |-> TRUE, value |-> VoiceList, mapped |-> TRUE,
          map |-> {<<"en-US", v>> : v \in VoiceList},
          queries |-> V.queries + 1]
    ELSE [V EXCEPT !.queries = @ + 1, !.cached = (q = "status")]

\* SpeechService.synthesization_voices: the instance after one read
synthesization_voices(V, q) ==
  IF V.mapped THEN V
  ELSE IF q = "ok"
    THEN [cached |-> TRUE, value |-> VoiceList, mapped |-> TRUE,
          map |-> {<<"en-US", v>> : v \in VoiceList},
          queries |-> V.queries + 1]
    ELSE [V EXCEPT !.queries = @ + 1]

\* The record of one operation on the SpeechService
Called(op, a, outcome, queried) ==
  [op |-> op, arg |-> a, outcome |-> outcome, queried |-> queried,
   n |-> call.n + 1]

\* create_transcriber: the language actually validated.
EffectiveLanguage(language) ==
  IF language = "none" THEN defaults.language ELSE language

\* create_synthesizer: the voice actually validated.
EffectiveVoice(voice) ==
  IF voice = "none" THEN defaults.voice ELSE voice

\* create_transcriber without the membership test
create_transcriber_unchecked(language) == "ok"

\* create_transcriber: "ok" or the exception it raises.
create_transcriber(language) ==
  IF EffectiveLanguage(language) \notin languages.value THEN "ValueError" ELSE "ok"

\* create_synthesizer without the membership test
create_synthesizer_unchecked(voice) ==
  IF ~voices.cached THEN "AttributeError" ELSE "ok"

\* create_synthesizer: "ok" or the exception it raises.  _supported_voices
\* is an attribute that exists only once synthesization_voices was resolved.
create_synthesizer(voice) ==
  IF ~voices.cached THEN "AttributeError"
  ELSE IF EffectiveVoice(voice) \notin voices.value THEN "ValueError"
  ELSE "ok"

-----------------------------------------------------------------------------
(* transcriber.py *)

\* Transcriber.__init__
NewTranscriber(c, lang) ==
  [owner |-> c, language |-> lang,
   engine |-> "created",      \* the SpeechRecognizer's recognition session
   finished |-> FALSE,        \* _recognition_finished (asyncio.Event)
   statements |-> <<>>,       \* _recognized_statements
   fired |-> <<>>,            \* texts of the 'recognized' events the engine fired
   emitted |-> 0,             \* Transcript events written for this session
   calls |-> <<>>]            \* calls the handler made on this object

\* Transcriber.start
start(t) ==
  [t EXCEPT !.calls = Append(@, "start"),
            !.engine = IF @ = "created" THEN "running" ELSE @]

\* Transcriber.stop
stop(t) ==
  [t EXCEPT !.calls = Append(@, "stop"),
            !.engine = IF @ = "running" THEN "stopping" ELSE @]

\* Transcriber.push_sample
push_sample(t) == [t EXCEPT !.calls = Append(@, "push")]

\* Transcriber._recognized, run on the engine's thread
Recognized(t, text) ==
  [t EXCEPT !.statements = Append(@, text),
            !.fired = Append(@, text),
            !.finished = TRUE]

\* _canceled that also appends a text, as _recognized does
Canceled_appends(t) ==
  [t EXCEPT !.engine = "canceled", !.finished = TRUE,
            !.statements = Append(@, <<1>>)]

\* Transcriber._canceled, run on the engine's thread
Canceled(t) == [t EXCEPT !.engine = "canceled", !.finished = TRUE]

\* Transcriber._setssion_stopped, run on the engine's thread: logs only
SessionStopped(t) == [t EXCEPT !.engine = "stopped"]

\* Transcriber.recognized_statement, the part after the wait
recognized_statement(t) == Join(t.statements)

\* The recognition session of t has delivered its terminating signal.
Terminated(t) == t.engine \in {"canceled", "stopped"}

-----------------------------------------------------------------------------
(* synthesizer.py *)

\* No Synthesizer yet.
NoSynth ==
  [engine |-> "none", released |-> FALSE, closed |-> FALSE, sched |-> <<>>,
   queue |-> <<>>, written |-> <<>>]

\* Synthesizer.__init__ followed by Synthesizer.synthesize
NewSynth ==
  [engine |-> "speaking",   \* speak_text_async is running
   released |-> FALSE,      \* _synthesize has returned
   closed |-> FALSE,        \* the engine closed the push stream itself
   sched |-> <<>>,          \* put() coroutines handed to the loop, not yet run
   queue |-> <<>>,          \* _audio_data
   written |-> <<>>]        \* buffers passed to write() so far

\* write that hands the buffer over ahead of the ones already handed over
write_ahead(y, buf) ==
  [y EXCEPT !.sched = <<buf>> \o @, !.written = Append(@, buf)]

\* AioPushAudioOutputStreamCallback.write, run on the engine's thread
write(y, buf) ==
  [y EXCEPT !.sched = Append(@, buf), !.written = Append(@, buf)]

\* AioPushAudioOutputStreamCallback.close, run on the engine's thread
close(y) == [y EXCEPT !.sched = Append(@, None)]

-----------------------------------------------------------------------------
(* State after construction: main() has built the SpeechService, nothing is
   resolved, no connection has delivered an event. *)

Init ==
  /\ phase = "startup"
  /\ languages = NoLanguages
  /\ voices = NoVoices
  /\ call = [op |-> "none", arg |-> "-", outcome |-> "none",
             queried |-> FALSE, n |-> 0]
  /\ defaults \in [language : DefaultLanguages, voice : DefaultVoices]
  /\ status = [c \in Conns |-> "open"]
  /\ pc = [c \in Conns |-> "read"]
  /\ cur = [c \in Conns |-> "none"]
  /\ arg = [c \in Conns |-> "-"]
  /\ handled = [c \in Conns |-> 0]
  /\ result = [c \in Conns |-> "none"]
  /\ transcriber = [c \in Conns |-> None]
  /\ sessions = <<>>
  /\ synth = [c \in Conns |-> NoSynth]
  /\ out = [c \in Conns |-> <<>>]

-----------------------------------------------------------------------------
(* __main__.py *)

\* get_transcription_languages: read the property; any exception exits
get_transcription_languages(q) ==
  /\ phase = "startup"
  /\ languages' = transcription_languages(languages, q)
  /\ call' = Called("transcription_languages", "-",
                    PropertyOutcome(languages.cached, q), ~languages.cached)
  /\ phase' = IF PropertyOutcome(languages.cached, q) = "value"
                THEN "langs" ELSE "exited"
  /\ UNCHANGED <<voices, defaults, status, pc, cur, arg, handled, result,
                 transcriber, sessions, synth, out>>

\* get_synthesization_voices: read the property; any exception exits;
\* then server.run starts accepting connections
get_synthesization_voices(q) ==
  /\ phase = "langs"
  /\ voices' = synthesization_voices(voices, q)
  /\ call' = Called("synthesization_voices", "-",
                    PropertyOutcome(voices.mapped, q), ~voices.mapped)
  /\ phase' = IF PropertyOutcome(voices.mapped, q) = "value"
                THEN "serving" ELSE "exited"
  /\ UNCHANGED <<languages, defaults, status, pc, cur, arg, handled, result,
                 transcriber, sessions, synth, out>>

-----------------------------------------------------------------------------
(* The event loop *)

\* One iteration of the loop runs every callback that is in its ready
\* queue: a task whose wait() future was completed from another thread
\* (pc "stopWoken") is resumed by the next iteration, whatever caused it.
Kick(p) ==
  [c \in DOMAIN p |-> IF p[c] = "stopWoken" THEN "stopJoin" ELSE p[c]]

\* The connection task is in the transport's read loop and the next inbound
\* event is dispatched to handle_event.
Begin(c) ==
  /\ phase = "serving"
  /\ status[c] = "open"
  /\ pc[c] = "read"
  /\ Total(handled, DOMAIN handled) < MaxEvents

\* handle_event: dispatch on the event type
Dispatched(c, ty, a) ==
  /\ cur' = [cur EXCEPT ![c] = ty]
  /\ arg' = [arg EXCEPT ![c] = a]
  /\ handled' = [handled EXCEPT ![c] = @ + 1]

\* The events written by this handle_event so far
Wrote(c, evs) == out' = [out EXCEPT ![c] = evs]

\* What the transport does with the outcome of handle_event: True keeps
\* reading, False disconnects the client, an exception ends the task.
StatusAfter(r) ==
  IF r = "True" THEN "open" ELSE IF r = "False" THEN "closed" ELSE "failed"

\* handle_event returns r or raises r
Return(c, r) ==
  /\ result' = [result EXCEPT ![c] = r]
  /\ status' = [status EXCEPT ![c] = StatusAfter(r)]

\* handle_event is suspended inside the handler
Pending(c) ==
  /\ result' = [result EXCEPT ![c] = "pending"]
  /\ UNCHANGED status

-----------------------------------------------------------------------------
(* handler.py *)

\* _audio_chunk without the test for a missing transcriber
audio_chunk_unguarded(c) ==
  /\ Begin(c)
  /\ Dispatched(c, "AudioChunk", "-")
  /\ sessions' = IF transcriber[c] = None THEN sessions
                 ELSE [sessions EXCEPT ![transcriber[c]] = push_sample(@)]
  /\ Return(c, "True")
  /\ Wrote(c, <<>>)
  /\ pc' = Kick(pc)
  /\ UNCHANGED <<phase, languages, voices, defaults, call, transcriber, synth>>

\* _audio_chunk
audio_chunk(c) ==
  /\ Begin(c)
  /\ Dispatched(c, "AudioChunk", "-")
  /\ IF transcriber[c] = None
       THEN /\ Return(c, "RuntimeError")
            /\ UNCHANGED sessions
       ELSE /\ sessions' = [sessions EXCEPT ![transcriber[c]] = push_sample(@)]
            /\ Return(c, "True")
  /\ Wrote(c, <<>>)
  /\ pc' = Kick(pc)
  /\ UNCHANGED <<phase, languages, voices, defaults, call, transcriber, synth>>

\* _audio_start
audio_start(c) ==
  /\ Begin(c)
  /\ Dispatched(c, "AudioStart", "-")
  /\ IF transcriber[c] = None
       THEN /\ Return(c, "RuntimeError")
            /\ UNCHANGED sessions
       ELSE /\ sessions' = [sessions EXCEPT ![transcriber[c]] = start(@)]
            /\ Return(c, "True")
  /\ Wrote(c, <<>>)
  /\ pc' = Kick(pc)
  /\ UNCHANGED <<phase, languages, voices, defaults, call, transcriber, synth>>

\* _audio_stop up to the call of stop()
audio_stop(c) ==
  /\ Begin(c)
  /\ Dispatched(c, "AudioStop", "-")
  /\ IF transcriber[c] = None
       THEN /\ Return(c, "RuntimeError")
            /\ UNCHANGED sessions
            /\ pc' = Kick(pc)
       ELSE /\ sessions' = [sessions EXCEPT ![transcriber[c]] = stop(@)]
            /\ Pending(c)
            /\ pc' = Kick([pc EXCEPT ![c] = "stopWait"])
  /\ Wrote(c, <<>>)
  /\ UNCHANGED <<phase, languages, voices, defaults, call, transcriber, synth>>

\* _audio_stop: await recognized_statement reaches Event.wait(), whose
\* first statement tests the flag and returns at once when it is set
audio_stop_wait(c) ==
  /\ pc[c] = "stopWait"
  /\ sessions' = [sessions EXCEPT ![transcriber[c]].calls = Append(@, "await")]
  /\ pc' = Kick([pc EXCEPT ![c] =
                   IF sessions[transcriber[c]].finished
                     THEN "stopJoin" ELSE "stopChecked"])
  /\ UNCHANGED <<phase, languages, voices, defaults, call, status, cur, arg, handled,
                 result, transcriber, synth, out>>

\* Event.wait(), flag found unset: append a future to the waiters and
\* suspend on it.  The flag is not tested again.
audio_stop_suspend(c) ==
  /\ pc[c] = "stopChecked"
  /\ pc' = Kick([pc EXCEPT ![c] = "stopSuspended"])
  /\ UNCHANGED <<phase, languages, voices, defaults, call, status, cur, arg, handled,
                 result, transcriber, sessions, synth, out>>

\* _audio_stop that keeps self._transcriber after writing the Transcript
audio_stop_finish_keeps(c) ==
  /\ pc[c] = "stopJoin"
  /\ Wrote(c, Append(out[c],
                     Ev("Transcript",
                        [sid |-> transcriber[c],
                         text |-> recognized_statement(sessions[transcriber[c]])])))
  /\ sessions' = [sessions EXCEPT ![transcriber[c]].emitted = @ + 1]
  /\ Return(c, "False")
  /\ pc' = Kick([pc EXCEPT ![c] = "read"])
  /\ UNCHANGED <<phase, languages, voices, defaults, call, cur, arg, handled, synth,
                 transcriber>>

\* _audio_stop after the wait: join, write the Transcript, drop the session
audio_stop_finish(c) ==
  /\ pc[c] = "stopJoin"
  /\ Wrote(c, Append(out[c],
                     Ev("Transcript",
                        [sid |-> transcriber[c],
                         text |-> recognized_statement(sessions[transcriber[c]])])))
  /\ sessions' = [sessions EXCEPT ![transcriber[c]].emitted = @ + 1]
  /\ transcriber' = [transcriber EXCEPT ![c] = None]
  /\ Return(c, "False")
  /\ pc' = Kick([pc EXCEPT ![c] = "read"])
  /\ UNCHANGED <<phase, languages, voices, defaults, call, cur, arg, handled, synth>>

\* _transcribe
transcribe(c, language) ==
  /\ Begin(c)
  /\ Dispatched(c, "Transcribe", language)
  /\ IF create_transcriber(language) = "ok"
       THEN /\ Len(sessions) < MaxSessions
            /\ sessions' = Append(sessions,
                                  NewTranscriber(c, EffectiveLanguage(language)))
            /\ transcriber' = [transcriber EXCEPT ![c] = Len(sessions) + 1]
            /\ Return(c, "True")
       ELSE /\ Return(c, create_transcriber(language))
            /\ UNCHANGED <<sessions, transcriber>>
  /\ Wrote(c, <<>>)
  /\ pc' = Kick(pc)
  /\ UNCHANGED <<phase, languages, voices, defaults, call, synth>>

\* _synthesize that starts iterating without writing AudioStart
synthesize_unframed(c, voice) ==
  /\ Begin(c)
  /\ Dispatched(c, "Synthesize", voice)
  /\ IF create_synthesizer(voice) = "ok"
       THEN /\ synth' = [synth EXCEPT ![c] = NewSynth]
            /\ Wrote(c, <<>>)
            /\ Pending(c)
            /\ pc' = Kick([pc EXCEPT ![c] = "synthIter"])
       ELSE /\ Return(c, create_synthesizer(voice))
            /\ Wrote(c, <<>>)
            /\ pc' = Kick(pc)
            /\ UNCHANGED synth
  /\ UNCHANGED <<phase, languages, voices, defaults, call, transcriber, sessions>>

\* _synthesize up to the first read of the sample iterator
synthesize(c, voice) ==
  /\ Begin(c)
  /\ Dispatched(c, "Synthesize", voice)
  /\ IF create_synthesizer(voice) = "ok"
       THEN /\ synth' = [synth EXCEPT ![c] = NewSynth]
            /\ Wrote(c, <<Ev("AudioStart", None)>>)
            /\ Pending(c)
            /\ pc' = Kick([pc EXCEPT ![c] = "synthIter"])
       ELSE /\ Return(c, create_synthesizer(voice))
            /\ Wrote(c, <<>>)
            /\ pc' = Kick(pc)
            /\ UNCHANGED synth
  /\ UNCHANGED <<phase, languages, voices, defaults, call, transcriber, sessions>>

\* The Synthesizer after _synthesize returned: a local that nothing reads
\* any more; its queue and its engine are no longer tracked.
Released(y) ==
  [y EXCEPT !.released = TRUE, !.closed = FALSE, !.sched = <<>>,
            !.queue = <<>>]

\* _synthesize ending the transcription session of the connection when it
\* returns
synthesize_next_resets(c) ==
  /\ pc[c] = "synthIter"
  /\ synth[c].queue # <<>>
  /\ IF Head(synth[c].queue) = None
       THEN /\ Wrote(c, Append(out[c], Ev("AudioStop", None)))
            /\ synth' = [synth EXCEPT ![c] = Released(@)]
            /\ Return(c, "True")
            /\ pc' = Kick([pc EXCEPT ![c] = "read"])
            /\ transcriber' = [transcriber EXCEPT ![c] = None]
       ELSE /\ Wrote(c, Append(out[c], Ev("AudioChunk", Head(synth[c].queue))))
            /\ synth' = [synth EXCEPT ![c].queue = Tail(@)]
            /\ pc' = Kick(pc)
            /\ UNCHANGED <<result, status, transcriber>>
  /\ UNCHANGED <<phase, languages, voices, defaults, call, cur, arg, handled,
                 sessions>>

\* _synthesize: one turn of the async for (read / __anext__): take the next
\* queue item, write it as AudioChunk, or on the marker write AudioStop and
\* return
synthesize_next(c) ==
  /\ pc[c] = "synthIter"
  /\ synth[c].queue # <<>>
  /\ IF Head(synth[c].queue) = None
       THEN /\ Wrote(c, Append(out[c], Ev("AudioStop", None)))
            /\ synth' = [synth EXCEPT ![c] = Released(@)]
            /\ Return(c, "True")
            /\ pc' = Kick([pc EXCEPT ![c] = "read"])
       ELSE /\ Wrote(c, Append(out[c], Ev("AudioChunk", Head(synth[c].queue))))
            /\ synth' = [synth EXCEPT ![c].queue = Tail(@)]
            /\ pc' = Kick(pc)
            /\ UNCHANGED <<result, status>>
  /\ UNCHANGED <<phase, languages, voices, defaults, call, cur, arg, handled,
                 transcriber, sessions>>

\* _describe
describe(c) ==
  /\ Begin(c)
  /\ Dispatched(c, "Describe", "-")
  /\ Wrote(c, <<Ev("Info", None)>>)
  /\ Return(c, "True")
  /\ pc' = Kick(pc)
  /\ UNCHANGED <<phase, languages, voices, defaults, call, transcriber, sessions,
                 synth>>

\* handle_event answering False to an event type it does not know
unknown_event_disconnects(c) ==
  /\ Begin(c)
  /\ Dispatched(c, "Unknown", "-")
  /\ Return(c, "False")
  /\ Wrote(c, <<>>)
  /\ pc' = Kick(pc)
  /\ UNCHANGED <<phase, languages, voices, defaults, call, transcriber, sessions,
                 synth>>

\* handle_event for an event type that is not in the dispatch table
unknown_event(c) ==
  /\ Begin(c)
  /\ Dispatched(c, "Unknown", "-")
  /\ Return(c, "True")
  /\ Wrote(c, <<>>)
  /\ pc' = Kick(pc)
  /\ UNCHANGED <<phase, languages, voices, defaults, call, transcriber, sessions,
                 synth>>

\* synthesizer.py: the loop runs the oldest put() coroutine that write/close
\* handed over with run_coroutine_threadsafe (which wakes the loop)
run_put(c) ==
  /\ synth[c].sched # <<>>
  /\ synth' = [synth EXCEPT ![c].sched = Tail(@),
                            ![c].queue = Append(@, Head(synth[c].sched))]
  /\ pc' = Kick(pc)
  /\ UNCHANGED <<phase, languages, voices, defaults, call, status, cur, arg, handled,
                 result, transcriber, sessions, out>>

\* The selector returns because of I/O that has nothing to do with the
\* waiting session (a client connects, bytes arrive on a socket): the loop
\* runs an iteration.  Nothing in the program makes this happen.
selector_wakeup(c) ==
  /\ pc[c] = "stopWoken"
  /\ pc' = Kick(pc)
  /\ UNCHANGED <<phase, languages, voices, defaults, call, status, cur, arg, handled,
                 result, transcriber, sessions, synth, out>>

-----------------------------------------------------------------------------
(* The speech engine: callbacks on the engine's threads *)

\* Event.set() on a signal that all the transcribers share: it completes
\* the waiter of every suspended task
SetWakes_any(s) ==
  [c \in DOMAIN pc |->
     IF ~sessions[s].finished /\ pc[c] = "stopSuspended"
       THEN "stopWoken" ELSE pc[c]]

\* asyncio.Event.set() called on the engine's thread (transcriber.py:72,76):
\* when the flag is unset, every registered waiter future is completed, which
\* puts the task's wake-up in the loop's ready queue without waking the
\* selector; a set flag makes set() a no-op.
SetWakes(s) ==
  IF /\ ~sessions[s].finished
     /\ pc[sessions[s].owner] = "stopSuspended"
     /\ transcriber[sessions[s].owner] = s
    THEN [pc EXCEPT ![sessions[s].owner] = "stopWoken"]
    ELSE pc

\* The recognizer fires 'recognized' with some text.
EngineRecognized(s, text) ==
  /\ sessions[s].engine \in {"running", "stopping"}
  /\ Len(sessions[s].fired) < MaxRecognized
  /\ sessions' = [sessions EXCEPT ![s] = Recognized(@, text)]
  /\ pc' = SetWakes(s)
  /\ UNCHANGED <<phase, languages, voices, defaults, call, status, cur, arg, handled,
                 result, transcriber, synth, out>>

\* The recognizer fires 'canceled'.
EngineCanceled(s) ==
  /\ sessions[s].engine \in {"running", "stopping"}
  /\ sessions' = [sessions EXCEPT ![s] = Canceled(@)]
  /\ pc' = SetWakes(s)
  /\ UNCHANGED <<phase, languages, voices, defaults, call, status, cur, arg, handled,
                 result, transcriber, synth, out>>

\* The recognizer fires 'session_stopped': after stop() was requested, or
\* after a cancellation.
EngineSessionStopped(s) ==
  /\ sessions[s].engine \in {"stopping", "canceled"}
  /\ sessions' = [sessions EXCEPT ![s] = SessionStopped(@)]
  /\ UNCHANGED <<phase, languages, voices, defaults, call, status, pc, cur, arg, handled,
                 result, transcriber, synth, out>>

\* The synthesizer passes one audio buffer to write().
EngineWrite(c, buf) ==
  /\ synth[c].engine = "speaking"
  /\ ~synth[c].released
  /\ Len(synth[c].written) < MaxWrites
  /\ synth' = [synth EXCEPT ![c] = write(@, buf)]
  /\ UNCHANGED <<phase, languages, voices, defaults, call, status, pc, cur, arg, handled,
                 result, transcriber, sessions, out>>

\* The synthesizer fires 'synthesis_completed': Synthesizer._completed
EngineCompleted(c) ==
  /\ synth[c].engine = "speaking"
  /\ ~synth[c].released
  /\ synth' = [synth EXCEPT ![c] = close([@ EXCEPT !.engine = "completed"])]
  /\ UNCHANGED <<phase, languages, voices, defaults, call, status, pc, cur, arg, handled,
                 result, transcriber, sessions, out>>

\* The synthesizer fires 'synthesis_canceled': Synthesizer._canceled
EngineSynthCanceled(c) ==
  /\ synth[c].engine = "speaking"
  /\ ~synth[c].released
  /\ synth' = [synth EXCEPT ![c] = close([@ EXCEPT !.engine = "canceled"])]
  /\ UNCHANGED <<phase, languages, voices, defaults, call, status, pc, cur, arg, handled,
                 result, transcriber, sessions, out>>

\* The engine closes the push output stream and calls the callback's close()
\* itself, once, after the synthesis has ended.
EngineStreamClose(c) ==
  /\ synth[c].engine \in {"completed", "canceled"}
  /\ ~synth[c].closed
  /\ ~synth[c].released
  /\ synth' = [synth EXCEPT ![c] = close([@ EXCEPT !.closed = TRUE])]
  /\ UNCHANGED <<phase, languages, voices, defaults, call, status, pc, cur, arg, handled,
                 result, transcriber, sessions, out>>

-----------------------------------------------------------------------------
(* Specifications *)

Sids == 1..Len(sessions)

Next ==
  \/ \E q \in QueryResults : get_transcription_languages(q)
  \/ \E q \in QueryResults : get_synthesization_voices(q)
  \/ \E c \in Conns : audio_chunk(c)
  \/ \E c \in Conns : audio_start(c)
  \/ \E c \in Conns : audio_stop(c)
  \/ \E c \in Conns : audio_stop_wait(c)
  \/ \E c \in Conns : audio_stop_suspend(c)
  \/ \E c \in Conns : audio_stop_finish(c)
  \/ \E c \in Conns, l \in LanguageArgs : transcribe(c, l)
  \/ \E c \in Conns, v \in VoiceArgs : synthesize(c, v)
  \/ \E c \in Conns : synthesize_next(c)
  \/ \E c \in Conns : describe(c)
  \/ \E c \in Conns : unknown_event(c)
  \/ \E c \in Conns : run_put(c)
  \/ \E c \in Conns : selector_wakeup(c)
  \/ \E s \in Sids, t \in Texts : EngineRecognized(s, t)
  \/ \E s \in Sids : EngineCanceled(s)
  \/ \E s \in Sids : EngineSessionStopped(s)
  \/ \E c \in Conns, b \in Buffers : EngineWrite(c, b)
  \/ \E c \in Conns : EngineCompleted(c)
  \/ \E c \in Conns : EngineSynthCanceled(c)
  \/ \E c \in Conns : EngineStreamClose(c)

Spec == Init /\ [][Next]_vars

\* The event loop runs every step that is ready to run: a handler that is
\* not suspended continues, a handed-over put() runs.  Nothing is assumed of
\* the clients, of the engine, or of unrelated I/O.
LoopFairness ==
  \A c \in Conns :
    /\ WF_vars(audio_stop_wait(c))
    /\ WF_vars(audio_stop_suspend(c))
    /\ WF_vars(audio_stop_finish(c))
    /\ WF_vars(synthesize_next(c))
    /\ WF_vars(run_put(c))

FairSpec == Spec /\ LoopFairness

-----------------------------------------------------------------------------
(* The SpeechService used on its own: its properties and factory methods
   called in any order, each read of a property that is not stored yet
   making one outbound query of any outcome *)

\* service.transcription_languages
read_transcription_languages(q) ==
  /\ call.n < MaxCalls
  /\ languages' = transcription_languages(languages, q)
  /\ call' = Called("transcription_languages", "-",
                    PropertyOutcome(languages.cached, q), ~languages.cached)
  /\ UNCHANGED <<phase, voices, defaults, status, pc, cur, arg, handled,
                 result, transcriber, sessions, synth, out>>

\* service.synthesization_voices
read_synthesization_voices(q) ==
  /\ call.n < MaxCalls
  /\ voices' = synthesization_voices(voices, q)
  /\ call' = Called("synthesization_voices", "-",
                    PropertyOutcome(voices.mapped, q), ~voices.mapped)
  /\ UNCHANGED <<phase, languages, defaults, status, pc, cur, arg, handled,
                 result, transcriber, sessions, synth, out>>

\* service.create_transcriber(language): reads transcription_languages,
\* then tests the membership of the language
call_create_transcriber(language, q) ==
  /\ call.n < MaxCalls
  /\ UNCHANGED defaults
  /\ languages' = transcription_languages(languages, q)
  /\ call' = Called("create_transcriber", language,
                    IF PropertyOutcome(languages.cached, q) # "value"
                      THEN PropertyOutcome(languages.cached, q)
                      ELSE create_transcriber(language)',
                    ~languages.cached)
  /\ UNCHANGED <<phase, voices, status, pc, cur, arg, handled,
                 result, transcriber, sessions, synth, out>>

\* service.create_synthesizer(voice): reads the attribute _supported_voices
call_create_synthesizer(voice) ==
  /\ call.n < MaxCalls
  /\ call' = Called("create_synthesizer", voice, create_synthesizer(voice),
                    FALSE)
  /\ UNCHANGED <<phase, languages, voices, defaults, status, pc, cur, arg,
                 handled, result, transcriber, sessions, synth, out>>

CatalogNext ==
  \/ \E q \in QueryResults : read_transcription_languages(q)
  \/ \E q \in QueryResults : read_synthesization_voices(q)
  \/ \E l \in LanguageArgs, q \in QueryResults : call_create_transcriber(l, q)
  \/ \E v \in VoiceArgs : call_create_synthesizer(v)

CatalogSpec == Init /\ [][CatalogNext]_vars

-----------------------------------------------------------------------------
(* Two connections served at once.  The server has started with the
   program's default language and voice, both supported; the clients send
   Transcribe, AudioStart, AudioStop and Synthesize without arguments; the
   recognizer of session s recognizes the one-word text <<s>> and the
   synthesizer of connection c writes the buffer c, so that what each
   engine produced can be told apart. *)

Pair == {1, 2}

\* main() has resolved both catalogs and server.run has accepted two clients
IsolationInit ==
  /\ phase = "serving"
  /\ languages = transcription_languages(NoLanguages, "ok")
  /\ voices = synthesization_voices(NoVoices, "ok")
  /\ call = [op |-> "synthesization_voices", arg |-> "-", outcome |-> "value",
             queried |-> TRUE, n |-> 2]
  /\ defaults = [language |-> "en-US", voice |-> "en-US-AvaMultilingualNeural"]
  /\ status = [c \in Pair |-> "open"]
  /\ pc = [c \in Pair |-> "read"]
  /\ cur = [c \in Pair |-> "none"]
  /\ arg = [c \in Pair |-> "-"]
  /\ handled = [c \in Pair |-> 0]
  /\ result = [c \in Pair |-> "none"]
  /\ transcriber = [c \in Pair |-> None]
  /\ sessions = <<>>
  /\ synth = [c \in Pair |-> NoSynth]
  /\ out = [c \in Pair |-> <<>>]

IsolationNext ==
  \/ \E c \in Pair : audio_start(c)
  \/ \E c \in Pair : audio_stop(c)
  \/ \E c \in Pair : audio_stop_wait(c)
  \/ \E c \in Pair : audio_stop_suspend(c)
  \/ \E c \in Pair : audio_stop_finish(c)
  \/ \E c \in Pair : transcribe(c, "none")
  \/ \E c \in Pair : synthesize(c, "none")
  \/ \E c \in Pair : synthesize_next(c)
  \/ \E c \in Pair : run_put(c)
  \/ \E c \in Pair : selector_wakeup(c)
  \/ \E s \in Sids : EngineRecognized(s, <<s>>)
  \/ \E s \in Sids : EngineCanceled(s)
  \/ \E s \in Sids : EngineSessionStopped(s)
  \/ \E c \in Pair : EngineWrite(c, c)
  \/ \E c \in Pair : EngineCompleted(c)
  \/ \E c \in Pair : EngineSynthCanceled(c)
  \/ \E c \in Pair : EngineStreamClose(c)

IsolationSpec == IsolationInit /\ [][IsolationNext]_vars

-----------------------------------------------------------------------------
(* Observations used by the properties *)

\* The handler task of c is inside Event.wait() of its session.
InWait(c) == pc[c] \in {"stopChecked", "stopSuspended", "stopWoken"}

\* c has finished handling an event of type ty with outcome r.
Done(c, ty, r) == pc[c] = "read" /\ cur[c] = ty /\ result[c] = r

\* Types of a sequence of events
Types(evs) == [i \in 1..Len(evs) |-> evs[i].type]

\* Payloads of a sequence of AudioChunk events
Payloads(evs) == [i \in 1..Len(evs) |-> evs[i].data]

IsChunk(e) == e.type = "AudioChunk"

\* Payloads of the AudioChunk events among evs, in order
ChunkData(evs) == Payloads(SelectSeq(evs, IsChunk))

-----------------------------------------------------------------------------
(* Properties *)

\* The Transcript event written by c's AudioStop
TranscriptOf(c) == out[c][Len(out[c])].data

\* C1: the text of the emitted Transcript is the space-joined concatenation,
\* in arrival order, of the texts of every 'recognized' callback the engine
\* fired for the session before its terminating signal.
C1_TranscriptJoinsEveryRecognized ==
  \A c \in Conns :
    (Done(c, "AudioStop", "False")
       /\ Terminated(sessions[TranscriptOf(c).sid]))
      => TranscriptOf(c).text = Join(sessions[TranscriptOf(c).sid].fired)

\* evs is one AudioStart followed by AudioChunk events only
OpenFrame(evs) ==
  /\ Len(evs) >= 1
  /\ evs[1].type = "AudioStart"
  /\ \A i \in 2..Len(evs) : evs[i].type = "AudioChunk"

\* evs is one AudioStart, then AudioChunk events only, then one AudioStop
ClosedFrame(evs) ==
  /\ Len(evs) >= 2
  /\ OpenFrame(SubSeq(evs, 1, Len(evs) - 1))
  /\ evs[Len(evs)].type = "AudioStop"

\* C2: a Synthesize with a supported voice is not rejected, and what it
\* writes is one AudioStart, then AudioChunk events only, then (when the
\* handler returns, after completion or cancellation) exactly one AudioStop.
C2_SynthesizeFraming ==
  \A c \in Conns :
    (cur[c] = "Synthesize" /\ EffectiveVoice(arg[c]) \in voices.value)
      => /\ pc[c] \in {"synthIter", "read"}
         /\ pc[c] = "synthIter" => result[c] = "pending" /\ OpenFrame(out[c])
         /\ pc[c] = "read" => result[c] = "True" /\ ClosedFrame(out[c])

\* C2 witness: the engine cancelled after one chunk and the cycle was closed.
C2_Witness ==
  \E c \in Conns :
    /\ Done(c, "Synthesize", "True")
    /\ synth[c].engine = "canceled"
    /\ Types(out[c]) = <<"AudioStart", "AudioChunk", "AudioStop">>

\* C3: the AudioChunk payloads written during a Synthesize are, in order, the
\* buffers the engine passed to write(): a prefix of them while the handler
\* iterates, all of them once it has written AudioStop.
C3_ChunksInEngineOrder ==
  \A c \in Conns :
    cur[c] = "Synthesize"
      => /\ pc[c] = "synthIter"
              => IsPrefix(ChunkData(out[c]), synth[c].written)
         /\ Done(c, "Synthesize", "True")
              => ChunkData(out[c]) = synth[c].written

\* C3 witness: two different buffers were written and the cycle was closed.
C3_Witness ==
  \E c \in Conns :
    /\ Done(c, "Synthesize", "True")
    /\ Len(synth[c].written) = 2
    /\ synth[c].written[1] # synth[c].written[2]

\* c dispatches an event of type ty in this step.
Dispatch(c, ty) == handled'[c] = handled[c] + 1 /\ cur'[c] = ty

\* C4: an AudioChunk or AudioStart dispatched while the connection has no
\* transcriber raises RuntimeError, touches no session and no synthesizer,
\* writes no event, and ends the connection: nothing is dispatched or
\* written on it afterwards.
C4_AudioWithoutSessionIsFatal ==
  [][\A c \in Conns :
       /\ ((Dispatch(c, "AudioChunk") \/ Dispatch(c, "AudioStart"))
             /\ transcriber[c] = None)
            => /\ result'[c] = "RuntimeError"
               /\ status'[c] = "failed"
               /\ out'[c] = <<>>
               /\ sessions' = sessions
               /\ synth' = synth
               /\ transcriber' = transcriber
       /\ status[c] = "failed"
            => /\ handled'[c] = handled[c]
               /\ out'[c] = out[c]
               /\ status'[c] = "failed"]_vars

\* C4 witness: an AudioStart was dispatched on a connection without a
\* transcriber and raised.
C4_Witness ==
  \E c \in Conns :
    /\ Done(c, "AudioStart", "RuntimeError")
    /\ status[c] = "failed"
    /\ transcriber[c] = None

\* C5: a Transcribe whose language (or, when absent, the default language)
\* is not a supported language raises ValueError, creates no Transcriber and
\* leaves self._transcriber as it was; in particular a connection without a
\* transcriber still has none, which is the case in which AudioStart raises.
C5_UnsupportedLanguageArmsNothing ==
  [][\A c \in Conns :
       (Dispatch(c, "Transcribe")
          /\ EffectiveLanguage(arg'[c]) \notin languages.value)
         => /\ result'[c] = "ValueError"
            /\ sessions' = sessions
            /\ transcriber' = transcriber
            /\ out'[c] = <<>>]_vars

\* C5 witness: a Transcribe without a language was rejected because the
\* default language is unsupported, on a connection without a transcriber.
C5_Witness ==
  \E c \in Conns :
    /\ Done(c, "Transcribe", "ValueError")
    /\ arg[c] = "none"
    /\ transcriber[c] = None
    /\ sessions = <<>>

\* C6: an unsupported language or voice rejects only the request: the
\* connection remains open for the following events.
C6_UnsupportedKeepsConnectionOpen ==
  \A c \in Conns : result[c] = "ValueError" => status[c] = "open"

\* C7, transcription part: a task waiting in recognized_statement when the
\* engine reports the cancellation of its session eventually resumes and
\* returns from AudioStop.
CancelResolvesAwait ==
  \A c \in Conns :
    (InWait(c) /\ sessions[transcriber[c]].engine = "canceled")
      ~> Done(c, "AudioStop", "False")

\* C7, synthesis part: a task iterating get_samples when the engine reports
\* the cancellation of the synthesis eventually reaches the end of the
\* stream and returns from Synthesize.
CancelResolvesIteration ==
  \A c \in Conns :
    (pc[c] = "synthIter" /\ synth[c].engine = "canceled")
      ~> Done(c, "Synthesize", "True")

\* C7: whenever the engine reports cancellation for a session, the suspension
\* pending on that session is eventually resolved, for the transcription
\* (awaitResult) and for the synthesis (nextChunk).
C7_CancellationResolvesSuspension ==
  CancelResolvesAwait /\ CancelResolvesIteration

\* C8: when the engine cancelled a session for which it fired no
\* 'recognized' event, the AudioStop that consumes the session returns
\* normally and the Transcript it wrote has the empty text.
C8_CancelBeforeRecognizedIsEmpty ==
  \A c \in Conns :
    (cur[c] = "AudioStop" /\ pc[c] = "read" /\ result[c] # "RuntimeError")
      => /\ result[c] = "False"
         /\ Types(out[c]) = <<"Transcript">>
         /\ sessions[TranscriptOf(c).sid].fired = <<>>
              => TranscriptOf(c).text = <<>>

\* C8 witness: AudioStop returned for a started session that the engine
\* cancelled without having recognized anything.
C8_Witness ==
  \E c \in Conns :
    /\ Done(c, "AudioStop", "False")
    /\ sessions[TranscriptOf(c).sid].fired = <<>>
    /\ sessions[TranscriptOf(c).sid].engine \in {"canceled", "stopped"}
    /\ sessions[TranscriptOf(c).sid].calls[1] = "start"

\* The last n calls made on transcriber t
LastCalls(t, n) == SubSeq(t.calls, Len(t.calls) - n + 1, Len(t.calls))

\* C9: an AudioStop on a connection with a transcriber calls stop(), then
\* awaits the result, then writes exactly one Transcript for that session and
\* drops it: afterwards self._transcriber is None (the case in which
\* AudioChunk, AudioStart and AudioStop raise), and no session ever has two
\* Transcript events.
C9_AudioStopLifecycle ==
  /\ \A s \in Sids : sessions[s].emitted <= 1
  /\ \A c \in Conns :
       /\ pc[c] = "stopWait"
            => /\ LastCalls(sessions[transcriber[c]], 1) = <<"stop">>
               /\ sessions[transcriber[c]].emitted = 0
               /\ out[c] = <<>>
       /\ (InWait(c) \/ pc[c] = "stopJoin")
            => /\ LastCalls(sessions[transcriber[c]], 2) = <<"stop", "await">>
               /\ sessions[transcriber[c]].emitted = 0
               /\ out[c] = <<>>
       /\ Done(c, "AudioStop", "False")
            => /\ transcriber[c] = None
               /\ Types(out[c]) = <<"Transcript">>
               /\ sessions[TranscriptOf(c).sid].emitted = 1
               /\ sessions[TranscriptOf(c).sid].owner = c
               /\ LastCalls(sessions[TranscriptOf(c).sid], 2) = <<"stop", "await">>

\* C9 witness: AudioStop completed on a session that was started and fed.
C9_Witness ==
  \E c \in Conns :
    /\ Done(c, "AudioStop", "False")
    /\ sessions[TranscriptOf(c).sid].calls = <<"start", "push", "stop", "await">>
    /\ transcriber[c] = None

\* start() was called on t and stop() was not
Running(t) ==
  /\ \E i \in 1..Len(t.calls) : t.calls[i] = "start"
  /\ \A i \in 1..Len(t.calls) : t.calls[i] # "stop"

\* C10: no session on which start() was called is dropped by the handler
\* without stop() having been called on it: a started and not yet stopped
\* session is its connection's transcriber.
C10_NoStartedSessionDropped ==
  \A s \in Sids :
    Running(sessions[s]) => transcriber[sessions[s].owner] = s

-----------------------------------------------------------------------------
(* The catalogs of a SpeechService *)

\* C11: once the language list (the voice list) of a SpeechService has been
\* populated, no later operation on the instance makes another outbound
\* query of that type or changes what the catalog holds.
C11_PopulationIdempotent ==
  [][/\ languages.cached => languages' = languages
     /\ voices.mapped => voices' = voices]_vars

\* create_transcriber has validated a language against a list that an
\* earlier operation had populated.
C11_Witness ==
  /\ call.op = "create_transcriber"
  /\ call.outcome = "ok"
  /\ ~call.queried
  /\ languages.cached
  /\ languages.queries = 1

\* The operation just made was an access to the language list.
LanguageAccess ==
  call'.n # call.n /\ call'.op \in {"transcription_languages", "create_transcriber"}

\* The operation just made was an access to the voice mapping.
VoiceAccess ==
  call'.n # call.n /\ call'.op = "synthesization_voices"

\* The operation just made raised the error of a failed population.
PopulationFailed ==
  call'.outcome \in {"RuntimeError", "RequestException"}

\* C12: a population that fails raises and stores nothing, neither the
\* language list nor the voice mapping nor the supported voice set; an access
\* to a catalog that is not populated makes a new outbound query, and a
\* query is made only while no earlier one has succeeded.
C12_FailedPopulationStoresNothing ==
  [][/\ (LanguageAccess /\ ~languages.cached) =>
          /\ call'.queried
          /\ languages'.queries = languages.queries + 1
     /\ (VoiceAccess /\ ~voices.mapped) =>
          /\ call'.queried
          /\ voices'.queries = voices.queries + 1
     /\ (LanguageAccess /\ PopulationFailed) =>
          languages' = [NoLanguages EXCEPT !.queries = languages.queries + 1]
     /\ (VoiceAccess /\ PopulationFailed) =>
          voices' = [NoVoices EXCEPT !.queries = voices.queries + 1]
     /\ languages'.queries # languages.queries => ~languages.cached
     /\ voices'.queries # voices.queries => ~voices.mapped]_vars

\* The language list was populated by the retry of a failed query, and a
\* read of the voice mapping has just failed.
C12_Witness ==
  /\ languages.cached
  /\ languages.queries = 2
  /\ call.op = "synthesization_voices"
  /\ call.outcome = "RuntimeError"
  /\ voices = [NoVoices EXCEPT !.queries = 1]

\* C13: each catalog is populated by the first operation that needs it; in
\* particular create_synthesizer on an instance whose voice list was never
\* resolved populates the list and answers with the membership of the voice
\* (or with the error of the population), it does not fail for the list
\* being absent.
C13_CreateSynthesizerPopulates ==
  call.op = "create_synthesizer" =>
    /\ call.outcome \in {"ok", "ValueError", "RuntimeError", "RequestException"}
    /\ call.outcome \in {"ok", "ValueError"} => voices.mapped

-----------------------------------------------------------------------------
(* Synthesize and the transcription state *)

\* What the handler has done with each transcription session: whose it is,
\* its language, the calls made on it, the Transcripts written for it.
HandlerView(ss) ==
  [s \in 1..Len(ss) |->
     [owner |-> ss[s].owner, language |-> ss[s].language,
      calls |-> ss[s].calls, emitted |-> ss[s].emitted]]

\* The Synthesize cycle of c takes a step or is under way.
InSynthesize(c) ==
  Dispatch(c, "Synthesize") \/ (cur[c] = "Synthesize" /\ pc[c] = "synthIter")

\* C14: Synthesize is accepted whatever the transcription state of the
\* connection is, its outcome depending on the voice only, and no step of
\* its cycle, completed, cancelled or rejected, changes the transcriber of
\* the connection or what the handler has done with any session.
C14_SynthesizeKeepsTranscription ==
  [][\A c \in Conns :
       /\ InSynthesize(c) =>
            /\ transcriber'[c] = transcriber[c]
            /\ HandlerView(sessions') = HandlerView(sessions)
       /\ Dispatch(c, "Synthesize") =>
            result'[c] = IF create_synthesizer(arg'[c]) = "ok"
                           THEN "pending" ELSE "ValueError"]_vars

\* A Synthesize cycle has completed on a connection whose session was
\* started and has recognized a text.
C14_Witness ==
  \E c \in Conns :
    /\ Done(c, "Synthesize", "True")
    /\ transcriber[c] # None
    /\ sessions[transcriber[c]].calls = <<"start">>
    /\ sessions[transcriber[c]].statements # <<>>

-----------------------------------------------------------------------------
(* The order of the calls made on a Transcriber *)

\* start(), push_sample()*, stop(), recognized_statement(): the i-th call
\* of cs is in its place.
InOrder(cs, i) ==
  /\ cs[i] = "start" => i = 1
  /\ cs[i] \in {"push", "stop"} =>
       /\ i > 1
       /\ cs[1] = "start"
       /\ \A j \in 2..(i - 1) : cs[j] = "push"
  /\ cs[i] = "await" => i > 1 /\ cs[i - 1] = "stop"

\* C15: the calls the handler makes on every session are start(), then
\* push_sample() any number of times, then stop(), then
\* recognized_statement(): nothing is pushed, stopped or awaited on a session
\* that was not started, and no session is started twice.
C15_CallsInOrder ==
  \A s \in Sids : \A i \in 1..Len(sessions[s].calls) :
    InOrder(sessions[s].calls, i)

-----------------------------------------------------------------------------
(* The terminal marker of a Synthesizer's queue *)

\* C16: whatever the engine notifies (synthesis_completed,
\* synthesis_canceled, its own close of the push stream), the queue of a
\* Synthesizer never holds more than one terminal marker and holds nothing
\* behind it: a marker in the queue is its last item.
C16_OneTerminalMarker ==
  \A c \in Conns :
    \A i \in 1..Len(synth[c].queue) :
      synth[c].queue[i] = None => i = Len(synth[c].queue)

-----------------------------------------------------------------------------
(* The completion signal of a Transcriber *)

\* _recognition_finished, once set, stays set.
SignalNeverReset ==
  [][\A s \in Sids : sessions[s].finished => sessions'[s].finished]_vars

\* recognized_statement awaited when the signal is already set goes on
\* without suspending.
SetSignalSkipsSuspension ==
  [][\A c \in Conns :
       (pc[c] = "stopWait" /\ pc'[c] # "stopWait"
          /\ sessions[transcriber[c]].finished) => pc'[c] = "stopJoin"]_vars

\* An await of recognized_statement whose session has its signal set,
\* before the await or during it, is eventually satisfied.
SignalSatisfiesAwait ==
  \A c \in Conns :
    ((pc[c] = "stopWait" \/ InWait(c)) /\ sessions[transcriber[c]].finished)
      ~> Done(c, "AudioStop", "False")

\* C17: the completion signal of a session is set once, by the first
\* 'recognized' or 'canceled' notification, and never reset; the await of
\* the result is satisfied whichever notification comes first, during the
\* await or before it, and in the latter case without suspending.
C17_SingleFireSignal ==
  SignalNeverReset /\ SetSignalSkipsSuspension /\ SignalSatisfiesAwait

-----------------------------------------------------------------------------
(* What handle_event returns *)

\* Outcomes of handle_event that are not a return: still suspended, or an
\* exception.
NotReturned ==
  {"none", "pending", "RuntimeError", "ValueError", "AttributeError"}

\* False is returned by a completed AudioStop, after its Transcript, and by
\* nothing else; every other event returns True when it returns.
FalseOnlyFromAudioStop ==
  \A c \in Conns :
    /\ result[c] = "False" =>
         cur[c] = "AudioStop" /\ Types(out[c]) = <<"Transcript">>
    /\ (cur[c] = "AudioStop" /\ result[c] \notin NotReturned) =>
         result[c] = "False"
    /\ (cur[c] # "AudioStop" /\ result[c] \notin NotReturned) =>
         result[c] = "True"

\* An event of an unknown type returns True, writes nothing and changes
\* nothing of the connection, the sessions or the service.
UnknownChangesNothing ==
  [][\A c \in Conns :
       Dispatch(c, "Unknown") =>
         /\ result'[c] = "True"
         /\ out'[c] = <<>>
         /\ UNCHANGED <<phase, languages, voices, defaults, call, status, pc,
                        transcriber, sessions, synth>>]_vars

\* C18: handle_event returns False exactly when it has completed an
\* AudioStop, after writing the Transcript; Describe, Transcribe, AudioStart,
\* AudioChunk, Synthesize and unknown types return True when they return
\* normally, and an unknown type changes no state and writes no event.
C18_ReturnValues ==
  []FalseOnlyFromAudioStop /\ UnknownChangesNothing

\* An event of an unknown type was handled on a connection that has a
\* started session.
C18_Witness ==
  \E c \in Conns :
    /\ Done(c, "Unknown", "True")
    /\ transcriber[c] # None
    /\ sessions[transcriber[c]].calls = <<"start">>
    /\ status[c] = "open"

-----------------------------------------------------------------------------
(* AudioStop and the end of the recognition session *)

\* c is handling an AudioStop on a session that was started.
StoppingStarted(c) ==
  /\ cur[c] = "AudioStop"
  /\ result[c] = "pending"
  /\ \E i \in 1..Len(sessions[transcriber[c]].calls) :
       sessions[transcriber[c]].calls[i] = "start"

\* An AudioStop on a started session whose recognition has ended leads to
\* its Transcript.
EndedSessionYieldsTranscript ==
  \A c \in Conns :
    (StoppingStarted(c) /\ Terminated(sessions[transcriber[c]]))
      ~> Done(c, "AudioStop", "False")

\* The same when the session ended with 'session_stopped' alone: nothing
\* was recognized and nothing was canceled.
SilentEndYieldsTranscript ==
  \A c \in Conns :
    (/\ StoppingStarted(c)
     /\ sessions[transcriber[c]].engine = "stopped"
     /\ ~sessions[transcriber[c]].finished)
      ~> Done(c, "AudioStop", "False")

\* C20: every AudioStop handled on a started session eventually leads to a
\* Transcript, however the recognition session ends, also when the engine
\* recognizes nothing and ends it with 'session_stopped' alone.
C20_AudioStopYieldsTranscript ==
  SilentEndYieldsTranscript /\ EndedSessionYieldsTranscript

-----------------------------------------------------------------------------
(* Isolation of the sessions of two connections *)

\* Every audio buffer held by the Synthesizer of c or written on c as an
\* AudioChunk was produced by the synthesizer of c.
ChunksAreOwn ==
  \A c \in Pair :
    /\ \A i \in 1..Len(synth[c].sched) : synth[c].sched[i] \in {c, None}
    /\ \A i \in 1..Len(synth[c].queue) : synth[c].queue[i] \in {c, None}
    /\ \A i \in 1..Len(out[c]) : IsChunk(out[c][i]) => out[c][i].data = c

\* The transcriber of a connection is a session created for it, and the
\* Transcript written on a connection is that of a session of its own whose
\* signal is set, made of the words recognized for that session.
TranscriptIsOwn ==
  \A c \in Pair :
    /\ transcriber[c] # None => sessions[transcriber[c]].owner = c
    /\ Done(c, "AudioStop", "False") =>
         LET t == TranscriptOf(c) IN
           /\ sessions[t.sid].owner = c
           /\ sessions[t.sid].finished
           /\ \A i \in 1..Len(t.text) : t.text[i] \in {t.sid, Space}

\* A task suspended in recognized_statement is woken by the signal of its
\* own session only.
WokenByOwnSignal ==
  [][\A c \in Pair :
       (pc[c] = "stopSuspended" /\ pc'[c] = "stopWoken") =>
         /\ ~sessions[transcriber[c]].finished
         /\ sessions'[transcriber[c]].finished]_vars

\* C19: with two connections interleaved in any way, a buffer written by
\* the synthesizer of one connection is emitted on that connection only, and
\* a 'recognized' text or a cancellation of a session reaches only the
\* Transcript of the connection that owns the session; queues and
\* completion signals are not shared.
C19_SessionsIsolated ==
  []ChunksAreOwn /\ []TranscriptIsOwn /\ WokenByOwnSignal

\* One connection is suspended awaiting its session, whose signal is unset,
\* while the session of the other connection has recognized a text and set
\* its own signal.
C19_Witness ==
  \E c \in Pair : \E d \in Pair \ {c} :
    /\ pc[d] = "stopSuspended"
    /\ ~sessions[transcriber[d]].finished
    /\ transcriber[c] # None
    /\ sessions[transcriber[c]].finished
    /\ sessions[transcriber[c]].fired # <<>>

-----------------------------------------------------------------------------
(* A rejected Transcribe on a connection that has a session *)

\* A Transcribe rejected for its language changes neither the transcriber
\* of the connection nor any session: the earlier session is still the
\* connection's, with its language and the calls made on it.
RejectedTranscribeKeepsSession ==
  [][\A c \in Conns :
       (Dispatch(c, "Transcribe") /\ transcriber[c] # None
          /\ EffectiveLanguage(arg'[c]) \notin languages.value)
         => /\ transcriber'[c] = transcriber[c]
            /\ sessions' = sessions]_vars

\* After such a Transcribe the connection still takes events, which then
\* reach the earlier session.
RejectedTranscribeTakesEvents ==
  \A c \in Conns :
    (cur[c] = "Transcribe" /\ result[c] = "ValueError"
       /\ transcriber[c] # None)
      => status[c] = "open"

\* C21: a Transcribe that fails validation leaves the transcription state
\* of the connection as it was: a session already armed or started remains
\* the connection's session, with the same language and started status, and
\* the AudioStart, AudioChunk and AudioStop that follow act on it.
C21_FailedTranscribeKeepsSession ==
  RejectedTranscribeKeepsSession /\ []RejectedTranscribeTakesEvents

-----------------------------------------------------------------------------
(* A Synthesize rejected for its voice *)

\* The voice that the Synthesize being handled on c asks for, or the
\* default voice when it names none, is not a supported voice.
UnsupportedVoice(c) ==
  cur[c] = "Synthesize" /\ EffectiveVoice(arg[c]) \notin voices.value

\* C22: the voice is validated before anything else of a Synthesize cycle:
\* a Synthesize whose voice, or the default voice when it names none, is not
\* supported raises ValueError at once, writes no AudioStart, AudioChunk or
\* AudioStop, creates no Synthesizer and starts no synthesis.
C22_ValidationPrecedesOutput ==
  /\ [][\A c \in Conns :
          (Dispatch(c, "Synthesize")
             /\ EffectiveVoice(arg'[c]) \notin voices.value)
            => /\ result'[c] = "ValueError"
               /\ out'[c] = <<>>
               /\ synth' = synth
               /\ pc'[c] = "read"]_vars
  /\ [](\A c \in Conns :
          UnsupportedVoice(c) => out[c] = <<>> /\ pc[c] = "read")

\* A Synthesize that names no voice was rejected because the default voice
\* is unsupported, on a connection whose earlier Synthesize, with a
\* supported voice, had run to its end.
C22_Witness ==
  \E c \in Conns :
    /\ Done(c, "Synthesize", "ValueError")
    /\ arg[c] = "none"
    /\ defaults.voice \notin voices.value
    /\ handled[c] = 2
    /\ synth[c].released
    /\ out[c] = <<>>

=============================================================================
